---- MODULE Spec2Model ----
(***************************************************************************)
(* Model of the docling-mcp document tools: the document registry          *)
(* (local_document_cache), the per-document build stack                    *)
(* (local_stack_cache) and the tool handlers of tools/generation.py,       *)
(* tools/conversion.py and tools/manipulation.py.                          *)
(*                                                                         *)
(* A document is a heap of node objects (nodes, indexed by object          *)
(* identity), the three collections texts/groups/tables that hold the      *)
(* objects in creation order (an anchor is a position in a collection),    *)
(* and the ordered children of the body.  The build stack holds object     *)
(* references, not anchors.                                                *)
(***************************************************************************)
EXTENDS Integers, Sequences, FiniteSets, TLC

VARIABLES
    local_document_cache,   \* document key -> document
    local_stack_cache,      \* document key -> build stack (object references)
    reply,                  \* the outcome of the call being answered
    before,                 \* the registry and the stacks as that call found them
    opened,                 \* key -> successful open_list calls on the document
    closed,                 \* key -> successful close_list calls on the document
    deleted,                \* key -> anchors that successful deletes were given
    edits,                  \* successful update_text and delete calls so far
    calls,                  \* thread -> the handler it runs and how far it is
    raced,                  \* keys whose stack a handler wrote after another
                            \* handler had changed it since the first's check
    validation,             \* the data and the schema given to
                            \* validate_data_against_schema, and its result
    unclosed                \* key -> the list groups that open_list opened
                            \* and that no close_list has closed since

vars == <<local_document_cache, local_stack_cache, reply, before, opened,
          closed, deleted, edits, calls, raced, validation, unclosed>>

----------------------------------------------------------------------------
(* Bounds *)

\* most node objects held by the documents of the registry, in total
MaxNodes == 4

\* most entries of one add_list_items call
MaxItems == 2

\* largest index of the anchors a caller supplies
MaxIndex == 2

\* most successful update_text and delete calls of a run
MaxAnchorEdits == 1

\* most anchors of one delete call
MaxAnchors == 2

\* threads that run handlers at the same time, where handlers overlap
MaxThreads == 2

\* deepest nesting of the dicts given to validate_data_against_schema
MaxDepth == 2

----------------------------------------------------------------------------
(* Inputs *)

Prompts == {"p1"}

\* a source, and the same source wrapped in quotes
Sources == {"s1", "'s1'"}

Texts == {"a"}

Levels == {1, 2}

ItemPool == { [list_item_text |-> "x", list_marker_text |-> "-"],
              [list_item_text |-> "y", list_marker_text |-> "*"] }

RECURSIVE SeqsUpTo(_, _)
SeqsUpTo(S, n) ==
    IF n = 0 THEN { <<>> }
    ELSE LET shorter == SeqsUpTo(S, n - 1)
         IN  shorter \cup { Append(s, x) : s \in shorter, x \in S }

ItemLists == SeqsUpTo(ItemPool, MaxItems)

\* html_table inputs: unparsable, no table, one table, two tables
HtmlTables == {"bad", "none", "one", "two"}

CaptionLists == { <<>>, <<"c1", "c2">> }

FootnoteLists == { <<>>, <<"f1">> }

NewTexts == {"b"}

Collections == {"texts", "groups", "tables"}

\* the anchor string of position index of a collection
Anchor(collection, index) == "#/" \o collection \o "/" \o ToString(index)

AnchorPool == { Anchor("texts", i) : i \in 0..MaxIndex }
              \cup { Anchor("groups", 0), Anchor("tables", 0),
                     "#/pictures/0" }

AnchorLists == SeqsUpTo(AnchorPool, MaxAnchors)

\* what the conversion engine may do for a source: fail (the converter
\* raises), convert a part of the pages (it returns a result with the errors
\* of the others), or return an empty document or one with one paragraph
ConversionResults == {"failure", "partial", "empty", "one_paragraph"}

----------------------------------------------------------------------------
(* Keys *)

\* hashlib.md5(input_string.encode()).hexdigest(): a deterministic digest
hash_string_md5(input_string) ==
    CASE input_string = "p1" -> "md5_p1"
      [] input_string = "p2" -> "md5_p2"
      [] OTHER -> "md5_other"

\* source.strip("\"'")
strip(source) ==
    CASE source = "'s1'" -> "s1"
      [] OTHER -> source

\* docling_cache.get_cache_key: a digest of the (cleaned) source
get_cache_key(source) ==
    CASE source = "s1" -> "md5_src_s1"
      [] OTHER -> "md5_src_other"

Keys == { hash_string_md5(p) : p \in Prompts }
        \cup { get_cache_key(strip(s)) : s \in Sources }

----------------------------------------------------------------------------
(* The document tree (docling_core DoclingDocument, as the tools use it) *)

BODY == "body"
FURNITURE == "furniture"

\* parent 0 is the document body
NodeItem(label, text, level, marker, parent, layer) ==
    [ label |-> label, text |-> text, level |-> level, marker |-> marker,
      parent |-> parent, children |-> <<>>, captions |-> <<>>,
      footnotes |-> <<>>, content_layer |-> layer ]

\* DoclingDocument(name="Generated Document")
DoclingDocument ==
    [ nodes |-> <<>>, texts |-> <<>>, groups |-> <<>>, tables |-> <<>>,
      body |-> <<>> ]

\* the reference the next created object gets
NewRef(doc) == Len(doc.nodes) + 1

Last(s) == s[Len(s)]

Front(s) == SubSeq(s, 1, Len(s) - 1)

Range(s) == { s[i] : i \in 1..Len(s) }

\* attach a child to its parent: the body, or a node of the heap
AppendChild(doc, parent, ref) ==
    IF parent = 0
    THEN [doc EXCEPT !.body = Append(@, ref)]
    ELSE [doc EXCEPT !.nodes[parent].children = Append(@, ref)]

\* doc.add_text(label, text, content_layer): a new item of doc.texts, child
\* of the body
add_text(doc, label, text, layer) ==
    LET item == NodeItem(label, text, 0, "", 0, layer)
        d1   == [doc EXCEPT !.nodes = Append(@, item),
                            !.texts = Append(@, NewRef(doc))]
    IN  AppendChild(d1, 0, NewRef(doc))

\* doc.add_title(text)
add_title(doc, text) == add_text(doc, "title", text, BODY)

\* doc.add_heading(text, level)
add_heading(doc, text, level) ==
    LET item == NodeItem("section_header", text, level, "", 0, BODY)
        d1   == [doc EXCEPT !.nodes = Append(@, item),
                            !.texts = Append(@, NewRef(doc))]
    IN  AppendChild(d1, 0, NewRef(doc))

\* doc.add_group(label=GroupLabel.LIST): a new item of doc.groups, child of
\* the body
add_group(doc, label) ==
    LET item == NodeItem(label, "", 0, "", 0, BODY)
        d1   == [doc EXCEPT !.nodes = Append(@, item),
                            !.groups = Append(@, NewRef(doc))]
    IN  AppendChild(d1, 0, NewRef(doc))

\* doc.add_list_item(text, marker, parent): a new item of doc.texts, child
\* of parent
add_list_item(doc, text, marker, parent) ==
    LET item == NodeItem("list_item", text, 0, marker, parent, BODY)
        d1   == [doc EXCEPT !.nodes = Append(@, item),
                            !.texts = Append(@, NewRef(doc))]
    IN  AppendChild(d1, parent, NewRef(doc))

GroupLabels == {"list", "ordered_list", "unspecified"}

\* isinstance(parent, GroupItem)
IsGroupItem(doc, ref) == doc.nodes[ref].label \in GroupLabels

\* mutant: only the ordered list label is tested
IsOpenList_ordered(doc, ref) ==
    /\ IsGroupItem(doc, ref)
    /\ doc.nodes[ref].label = "ordered_list"

\* isinstance(parent, GroupItem) and parent.label in (LIST, ORDERED_LIST)
IsOpenList(doc, ref) ==
    /\ IsGroupItem(doc, ref)
    /\ doc.nodes[ref].label \in {"list", "ordered_list"}

\* doc.add_table(data): a new item of doc.tables, child of the body
add_table(doc, data) ==
    LET item == NodeItem("table", data, 0, "", 0, BODY)
        d1   == [doc EXCEPT !.nodes = Append(@, item),
                            !.tables = Append(@, NewRef(doc))]
    IN  AppendChild(d1, 0, NewRef(doc))

\* the collection of the document that an anchor names
CollectionOf(doc, collection) ==
    CASE collection = "texts" -> doc.texts
      [] collection = "groups" -> doc.groups
      [] collection = "tables" -> doc.tables
      [] OTHER -> <<>>

\* item.get_ref().cref: the anchor of a node that is in a collection
cref(doc, ref) ==
    LET hits == { <<c, i>> \in Collections \X (1..Len(doc.nodes)) :
                    /\ i <= Len(CollectionOf(doc, c))
                    /\ CollectionOf(doc, c)[i] = ref }
        h == CHOOSE x \in hits : TRUE
    IN  IF hits = {} THEN "" ELSE Anchor(h[1], h[2] - 1)

\* the positions an anchor string can name, with the string of each
Positions ==
    { [ collection |-> c, index |-> i, anchor |-> Anchor(c, i) ] :
        c \in Collections, i \in 0..MaxNodes }

\* RefItem(cref=anchor).resolve(doc): the node at the anchor's index of the
\* anchor's collection, 0 when the lookup raises
resolve(doc, anchor) ==
    LET hits == { p \in Positions :
                    /\ p.anchor = anchor
                    /\ p.index < Len(CollectionOf(doc, p.collection)) }
        p == CHOOSE x \in hits : TRUE
    IN  IF hits = {} THEN 0
        ELSE CollectionOf(doc, p.collection)[p.index + 1]

\* mutant: isinstance(item, DocItem), which a table is too
IsTextItem_docitem(doc, ref) ==
    doc.nodes[ref].label \in
        {"text", "title", "section_header", "list_item", "caption",
         "footnote", "table"}

\* isinstance(item, TextItem)
IsTextItem(doc, ref) ==
    doc.nodes[ref].label \in
        {"text", "title", "section_header", "list_item", "caption",
         "footnote"}

RECURSIVE Descendants(_, _)
Descendants(doc, ref) ==
    LET kids == Range(doc.nodes[ref].children)
    IN  kids \cup UNION { Descendants(doc, c) : c \in kids }

\* the nodes doc.iterate_items(with_groups=True) yields: the nodes of the
\* tree under the body that are in the body content layer
Iterated(doc) ==
    { r \in Range(doc.body) \cup
             UNION { Descendants(doc, c) : c \in Range(doc.body) } :
        doc.nodes[r].content_layer = BODY }

\* the nodes delete_items marks: the listed nodes it finds, and the nodes
\* below them
ToBeDeleted(doc, refs) ==
    LET found == Iterated(doc) \cap Range(refs)
    IN  { r \in Iterated(doc) :
            \/ r \in found
            \/ \E f \in found : r \in Descendants(doc, f) }

Without(s, gone) == SelectSeq(s, LAMBDA r : r \notin gone)

\* doc.delete_items(node_items): removes the marked nodes from the tree
\* and from their collections, which renumbers the later entries
delete_items(doc, refs) ==
    LET gone == ToBeDeleted(doc, refs)
    IN  [ doc EXCEPT
            !.body   = Without(@, gone),
            !.texts  = Without(@, gone),
            !.groups = Without(@, gone),
            !.tables = Without(@, gone),
            !.nodes  = [ r \in DOMAIN @ |->
                           [ @[r] EXCEPT !.children = Without(@, gone) ] ] ]

\* doc.iterate_items(): the items of the tree in depth-first pre-order with
\* their level (the children of the body have level 1); by default a group
\* is not yielded, only its children are, and only items of the body
\* content layer are yielded
RECURSIVE iterate_items(_, _, _)
RECURSIVE IterateChildren(_, _, _)
iterate_items(doc, root, level) ==
    LET yielded == IF /\ ~IsGroupItem(doc, root)
                      /\ doc.nodes[root].content_layer = BODY
                   THEN << [ item |-> root, level |-> level ] >>
                   ELSE << >>
    IN  yielded \o IterateChildren(doc, doc.nodes[root].children, level + 1)

\* "for child_ref in root.children: yield from iterate_items(child, ...)"
IterateChildren(doc, children, level) ==
    IF children = << >>
    THEN << >>
    ELSE iterate_items(doc, Head(children), level)
             \o IterateChildren(doc, Tail(children), level)

----------------------------------------------------------------------------
(* Outcomes of a call *)

\* a call that returned: ret is the returned value (the document key of a
\* confirmation message, a text, a cache key), status the returned success
\* flag, args the arguments of a call that inserted nodes
Reply(op, key, ret) ==
    [ op |-> op, key |-> key, ok |-> TRUE, status |-> TRUE, err |-> "none",
      ret |-> ret, listed |-> {}, args |-> <<>> ]

WithArgs(r, args) == [ r EXCEPT !.args = args ]

\* a call that raised
Raise(op, key, err) ==
    [ op |-> op, key |-> key, ok |-> FALSE, status |-> FALSE, err |-> err,
      ret |-> "", listed |-> {}, args |-> <<>> ]

\* doc_keys = ", ".join(local_document_cache.keys())
DocKeys(cache) == DOMAIN cache

\* raise ValueError("document-key: ... is not found. Existing document-keys
\* are: " + doc_keys)
NotFound(S, op, key) ==
    [ Raise(op, key, "not_found") EXCEPT !.listed = DocKeys(S.cache) ]

\* "document_key not in local_document_cache"
Missing(S, document_key) == document_key \notin DOMAIN S.cache

\* the registry and the stacks a call leaves, and its outcome
Result(cache, stacks, r) == [ cache |-> cache, stacks |-> stacks, reply |-> r ]

\* a call that changes nothing
Same(S, r) == Result(S.cache, S.stacks, r)

\* no call is being answered
Idle == Reply("none", "", "")

----------------------------------------------------------------------------
(* tools/generation.py *)

\* mutant: the document is stored and the stack is not
Store_document_only(S, key, doc, item, r) ==
    Result((key :> doc) @@ S.cache, S.stacks, r)

\* local_document_cache[document_key] = doc
\* local_stack_cache[document_key] = [item]
\* mutant: the caches are assigned anew, "local_document_cache = {key: doc}"
Store_replace(S, key, doc, item, r) ==
    Result((key :> doc), (key :> <<item>>), r)

Store(S, key, doc, item, r) ==
    Result((key :> doc) @@ S.cache, (key :> <<item>>) @@ S.stacks, r)

create_new_docling_document(S, prompt) ==
    LET doc  == add_text(DoclingDocument, "text", "prompt: " \o prompt,
                         FURNITURE)
        item == NewRef(DoclingDocument)
        document_key == hash_string_md5(prompt)
    IN  Store(S, document_key, doc, item,
              Reply("create", document_key, document_key))

\* mutant: the new item is pushed, the old top stays
ReplaceTop_push(stack, item) == Append(stack, item)

\* local_stack_cache[document_key][-1] = item
ReplaceTop(stack, item) == [ stack EXCEPT ![Len(stack)] = item ]

\* the common body of add_title, add_section_heading and add_paragraph:
\* the checks, then the insertion newdoc and the new stack top
AddLeaf(S, op, document_key, newdoc, args) ==
    IF Missing(S, document_key)
    THEN Same(S, NotFound(S, op, document_key))
    ELSE LET doc   == S.cache[document_key]
             stack == S.stacks[document_key]
         IN  IF Len(stack) = 0
             THEN Same(S, Raise(op, document_key, "stack_zero"))
             ELSE IF IsOpenList(doc, Last(stack))
             THEN Same(S, Raise(op, document_key, "validation"))
             ELSE Result([ S.cache EXCEPT ![document_key] = newdoc ],
                         [ S.stacks EXCEPT ![document_key] =
                             ReplaceTop(stack, NewRef(doc)) ],
                         WithArgs(Reply(op, document_key, document_key),
                                  args))

add_title_to_docling_document(S, document_key, title) ==
    AddLeaf(S, "add_title", document_key,
            add_title(S.cache[document_key], title), <<title>>)

add_section_heading_to_docling_document(S, document_key, section_heading, section_level) ==
    AddLeaf(S, "add_section_heading", document_key,
            add_heading(S.cache[document_key], section_heading,
                        section_level),
            <<section_heading, section_level>>)

add_paragraph_to_docling_document(S, document_key, paragraph) ==
    AddLeaf(S, "add_paragraph", document_key,
            add_text(S.cache[document_key], "text", paragraph, BODY),
            <<paragraph>>)

\* mutant: the group replaces the stack top, as a leaf does
open_list_replace_top(S, document_key) ==
    IF Missing(S, document_key)
    THEN Same(S, NotFound(S, "open_list", document_key))
    ELSE LET doc   == S.cache[document_key]
             stack == S.stacks[document_key]
         IN  IF Len(stack) = 0
             THEN Same(S, Raise("open_list", document_key, "stack_zero"))
             ELSE Result([ S.cache EXCEPT ![document_key] =
                             add_group(doc, "list") ],
                         [ S.stacks EXCEPT ![document_key] =
                             ReplaceTop(stack, NewRef(doc)) ],
                         Reply("open_list", document_key, document_key))

\* mutant: the stacks of all documents are one list object, so the push is
\* seen on every stack
open_list_shared_stack(S, document_key) ==
    IF Missing(S, document_key)
    THEN Same(S, NotFound(S, "open_list", document_key))
    ELSE LET doc == S.cache[document_key]
         IN  Result([ S.cache EXCEPT ![document_key] =
                        add_group(doc, "list") ],
                    [ k \in DOMAIN S.stacks |->
                        Append(S.stacks[k], NewRef(doc)) ],
                    Reply("open_list", document_key, document_key))

open_list_in_docling_document(S, document_key) ==
    IF Missing(S, document_key)
    THEN Same(S, NotFound(S, "open_list", document_key))
    ELSE LET doc   == S.cache[document_key]
             stack == S.stacks[document_key]
         IN  IF Len(stack) = 0
             THEN Same(S, Raise("open_list", document_key, "stack_zero"))
             ELSE Result([ S.cache EXCEPT ![document_key] =
                             add_group(doc, "list") ],
                         [ S.stacks EXCEPT ![document_key] =
                             Append(stack, NewRef(doc)) ],
                         Reply("open_list", document_key, document_key))

\* mutant: the depth check is off by one, "<= 2"
NothingToClose_two(stack) == Len(stack) <= 2

\* mutant: the check of the other handlers, "== 0"
NothingToClose_zero(stack) == Len(stack) = 0

\* "len(local_stack_cache[document_key]) <= 1"
NothingToClose(stack) == Len(stack) <= 1

\* mutant: pop(0), the bottom entry instead of the top
Pop_bottom(stack) == Tail(stack)

\* the stack after local_stack_cache[document_key].pop()
Pop(stack) == Front(stack)

\* mutant: the pop comes before the depth check
close_list_pop_first(S, document_key) ==
    IF Missing(S, document_key)
    THEN Same(S, NotFound(S, "close_list", document_key))
    ELSE LET stack == S.stacks[document_key]
             popped == [ S.stacks EXCEPT ![document_key] = Pop(stack) ]
         IN  IF NothingToClose(stack)
             THEN Result(S.cache, popped,
                         Raise("close_list", document_key, "validation"))
             ELSE Result(S.cache, popped,
                         Reply("close_list", document_key, document_key))

close_list_in_docling_document(S, document_key) ==
    IF Missing(S, document_key)
    THEN Same(S, NotFound(S, "close_list", document_key))
    ELSE LET stack == S.stacks[document_key]
         IN  IF NothingToClose(stack)
             THEN Same(S, Raise("close_list", document_key, "validation"))
             ELSE Result(S.cache,
                         [ S.stacks EXCEPT ![document_key] = Pop(stack) ],
                         Reply("close_list", document_key, document_key))

\* mutant: the loop runs over reversed(list_items)
RECURSIVE AddListItems_reversed(_, _, _)
AddListItems_reversed(doc, list_items, parent) ==
    IF list_items = <<>>
    THEN doc
    ELSE add_list_item(AddListItems_reversed(doc, Tail(list_items), parent),
                       Head(list_items).list_item_text,
                       Head(list_items).list_marker_text, parent)

\* the loop "for list_item in list_items: doc.add_list_item(...)"
RECURSIVE AddListItems(_, _, _)
AddListItems(doc, list_items, parent) ==
    IF list_items = <<>>
    THEN doc
    ELSE AddListItems(add_list_item(doc, Head(list_items).list_item_text,
                                    Head(list_items).list_marker_text,
                                    parent),
                      Tail(list_items), parent)

\* mutant: the "else: raise" for a top that is no group is missing
add_list_items_no_else(S, document_key, list_items) ==
    IF Missing(S, document_key)
    THEN Same(S, NotFound(S, "add_list_items", document_key))
    ELSE LET doc   == S.cache[document_key]
             stack == S.stacks[document_key]
         IN  IF Len(stack) = 0
             THEN Same(S, Raise("add_list_items", document_key,
                                "stack_zero"))
             ELSE IF IsGroupItem(doc, Last(stack))
                     /\ ~IsOpenList(doc, Last(stack))
             THEN Same(S, Raise("add_list_items", document_key,
                                "validation"))
             ELSE Result([ S.cache EXCEPT ![document_key] =
                             AddListItems(doc, list_items, Last(stack)) ],
                         S.stacks,
                         WithArgs(Reply("add_list_items", document_key,
                                        document_key), <<list_items>>))

\* mutant: the parent is the group created last, "doc.groups[-1]", open or
\* closed
add_list_items_newest_group(S, document_key, list_items) ==
    IF Missing(S, document_key)
    THEN Same(S, NotFound(S, "add_list_items", document_key))
    ELSE LET doc   == S.cache[document_key]
             stack == S.stacks[document_key]
         IN  IF Len(stack) = 0
             THEN Same(S, Raise("add_list_items", document_key,
                                "stack_zero"))
             ELSE IF ~IsOpenList(doc, Last(stack))
             THEN Same(S, Raise("add_list_items", document_key,
                                "validation"))
             ELSE Result([ S.cache EXCEPT ![document_key] =
                             AddListItems(doc, list_items,
                                          Last(doc.groups)) ],
                         S.stacks,
                         WithArgs(Reply("add_list_items", document_key,
                                        document_key), <<list_items>>))

add_list_items_to_list_in_docling_document(S, document_key, list_items) ==
    IF Missing(S, document_key)
    THEN Same(S, NotFound(S, "add_list_items", document_key))
    ELSE LET doc   == S.cache[document_key]
             stack == S.stacks[document_key]
         IN  IF Len(stack) = 0
             THEN Same(S, Raise("add_list_items", document_key,
                                "stack_zero"))
             ELSE IF ~IsOpenList(doc, Last(stack))
             THEN Same(S, Raise("add_list_items", document_key,
                                "validation"))
             ELSE Result([ S.cache EXCEPT ![document_key] =
                             AddListItems(doc, list_items, Last(stack)) ],
                         S.stacks,
                         WithArgs(Reply("add_list_items", document_key,
                                        document_key), <<list_items>>))

\* the html conversion of "<html><body>" + html_table + "</body></html>":
\* its status and the data of the tables it found
HtmlConversion(html_table) ==
    CASE html_table = "one" -> [ status |-> "success", tables |-> <<"d1">> ]
      [] html_table = "two" ->
             [ status |-> "success", tables |-> <<"d1", "d2">> ]
      [] html_table = "none" -> [ status |-> "success", tables |-> <<>> ]
      [] OTHER -> [ status |-> "failure", tables |-> <<>> ]

\* mutant: "table.captions.insert(0, caption.get_ref())"
AttachRef_front(refs, ref) == <<ref>> \o refs

\* "table.captions.append(caption.get_ref())"
AttachRef(refs, ref) == Append(refs, ref)

\* the loops over table_captions and table_footnotes: each text becomes an
\* item of doc.texts, and its reference goes to the table's list
RECURSIVE AddTableTexts(_, _, _, _)
AddTableTexts(doc, table, label, texts) ==
    IF texts = <<>>
    THEN doc
    ELSE LET d1 == add_text(doc, label, Head(texts), BODY)
             d2 == IF label = "caption"
                   THEN [ d1 EXCEPT !.nodes[table].captions =
                                        AttachRef(@, NewRef(doc)) ]
                   ELSE [ d1 EXCEPT !.nodes[table].footnotes =
                                        AttachRef(@, NewRef(doc)) ]
         IN  AddTableTexts(d2, table, label, Tail(texts))

\* f"Added table to a document with key: {document_key}"
TableMessage(document_key) ==
    "Added table to a document with key: " \o document_key

\* mutant: the captions and footnotes are added before the html is
\* converted
add_table_texts_first(S, document_key, html_table, table_captions, table_footnotes) ==
    IF Missing(S, document_key)
    THEN Same(S, NotFound(S, "add_table", document_key))
    ELSE LET doc   == S.cache[document_key]
             stack == S.stacks[document_key]
             conv_result == HtmlConversion(html_table)
             args  == <<html_table, table_captions, table_footnotes>>
             d1 == AddTableTexts(doc, 1, "caption", table_captions)
             d2 == AddTableTexts(d1, 1, "footnote", table_footnotes)
         IN  IF Len(stack) = 0
             THEN Same(S, Raise("add_table", document_key, "stack_zero"))
             ELSE IF conv_result.status = "success"
                     /\ Len(conv_result.tables) > 0
             THEN Result([ S.cache EXCEPT ![document_key] =
                             add_table(d2, conv_result.tables[1]) ],
                         S.stacks,
                         WithArgs(Reply("add_table", document_key,
                                        TableMessage(document_key)), args))
             ELSE Result([ S.cache EXCEPT ![document_key] = d2 ],
                         S.stacks,
                         WithArgs(Raise("add_table", document_key,
                                        "invalid_input"), args))

add_table_in_html_format_to_docling_document(S, document_key, html_table, table_captions, table_footnotes) ==
    IF Missing(S, document_key)
    THEN Same(S, NotFound(S, "add_table", document_key))
    ELSE LET doc   == S.cache[document_key]
             stack == S.stacks[document_key]
             conv_result == HtmlConversion(html_table)
             args  == <<html_table, table_captions, table_footnotes>>
             table == NewRef(doc)
             d1 == add_table(doc, conv_result.tables[1])
             d2 == AddTableTexts(d1, table, "caption", table_captions)
             d3 == AddTableTexts(d2, table, "footnote", table_footnotes)
         IN  IF Len(stack) = 0
             THEN Same(S, Raise("add_table", document_key, "stack_zero"))
             ELSE IF conv_result.status = "success"
                     /\ Len(conv_result.tables) > 0
             THEN Result([ S.cache EXCEPT ![document_key] = d3 ],
                         S.stacks,
                         WithArgs(Reply("add_table", document_key,
                                        TableMessage(document_key)), args))
             ELSE Same(S, WithArgs(Raise("add_table", document_key,
                                         "invalid_input"), args))

\* the markdown of one item: a title and a heading get their marks, a list
\* item its marker, the other items are their text
MarkdownOfItem(doc, item) ==
    LET node == doc.nodes[item]
    IN  CASE node.label = "title" -> "# " \o node.text
          [] node.label = "section_header" ->
                 (IF node.level = 1 THEN "## " ELSE "### ") \o node.text
          [] node.label = "list_item" -> node.marker \o " " \o node.text
          [] OTHER -> node.text

RECURSIVE MarkdownOfItems(_, _)
MarkdownOfItems(doc, items) ==
    IF items = << >> THEN ""
    ELSE IF Len(items) = 1 THEN MarkdownOfItem(doc, items[1].item)
    ELSE MarkdownOfItem(doc, Head(items).item) \o "\n\n"
             \o MarkdownOfItems(doc, Tail(items))

\* doc.export_to_markdown(): the items of the body in document order
export_to_markdown(doc) ==
    MarkdownOfItems(doc, IterateChildren(doc, doc.body, 1))

\* f"Markdown export for document with key: {document_key}\n\n{markdown}
\* \n\n"
ExportMessage(document_key, markdown) ==
    "Markdown export for document with key: " \o document_key \o "\n\n"
        \o markdown \o "\n\n"

\* mutant: the lookup of the key is missing
export_unchecked(S, document_key) ==
    Same(S, Reply("export", document_key, document_key))

\* mutant: "local_document_cache.pop(document_key).export_to_markdown()"
export_pop(S, document_key) ==
    IF Missing(S, document_key)
    THEN Same(S, NotFound(S, "export", document_key))
    ELSE Result([ k \in DOMAIN S.cache \ {document_key} |-> S.cache[k] ],
                S.stacks,
                Reply("export", document_key,
                      ExportMessage(document_key,
                          export_to_markdown(S.cache[document_key]))))

export_docling_document_to_markdown(S, document_key) ==
    IF Missing(S, document_key)
    THEN Same(S, NotFound(S, "export", document_key))
    ELSE Same(S, Reply("export", document_key,
                       ExportMessage(document_key,
                           export_to_markdown(S.cache[document_key]))))

save_docling_document(S, document_key) ==
    IF Missing(S, document_key)
    THEN Same(S, NotFound(S, "save", document_key))
    ELSE Same(S, Reply("save", document_key, document_key))

----------------------------------------------------------------------------
(* tools/conversion.py *)

\* mutant: "return bool(local_document_cache)"
InCache_any(S, cache_key) == DOMAIN S.cache # {}

\* "cache_key in local_document_cache"
InCache(S, cache_key) == cache_key \in DOMAIN S.cache

is_document_in_local_cache(S, cache_key) ==
    Same(S, [ Reply("is_in_cache", cache_key, "")
              EXCEPT !.status = InCache(S, cache_key) ])

\* result.document of a conversion that returned
ConvertedDocument(result) ==
    IF result \in {"one_paragraph", "partial"}
    THEN add_text(DoclingDocument, "text", "a", BODY)
    ELSE DoclingDocument

\* result.status of a conversion
StatusOf(result) ==
    CASE result = "failure" -> "failure"
      [] result = "partial" -> "partial_success"
      [] OTHER -> "success"

\* converter.convert(source) raises for a status that is neither success
\* nor partial success
ConvertRaises(result) ==
    StatusOf(result) \notin {"success", "partial_success"}

\* result.errors of a conversion that returned
ErrorsOf(result) == IF result = "partial" THEN <<"page failed">> ELSE << >>

\* mutant: only the probes of result.status are made, result.errors is
\* not looked at
HasError_status_only(result) == FALSE

\* has_error: the status of the engine has neither an is_error nor an
\* error attribute, so has_error is set by "result.errors" alone
HasError(result) == ErrorsOf(result) # << >>

\* mutant: the lookup of the cache key is missing
AlreadyConverted_never(S, cache_key) == FALSE

\* "if cache_key in local_document_cache: return False, ..."
AlreadyConverted(S, cache_key) == cache_key \in DOMAIN S.cache

convert_pdf_document_into_json_docling_document_from_uri_path(S, source0, result) ==
    LET source    == strip(source0)
        cache_key == get_cache_key(source)
        document  == ConvertedDocument(result)
    IN  IF AlreadyConverted(S, cache_key)
        THEN Same(S, [ Reply("convert", cache_key,
                             "Document already exists in the system cache.")
                       EXCEPT !.status = FALSE ])
        ELSE IF ConvertRaises(result) \/ HasError(result)
        THEN Same(S, WithArgs(Raise("convert", cache_key, "conversion"),
                              <<source0, result>>))
        ELSE Store(S, cache_key,
                   add_text(document, "text", "source: " \o source,
                            FURNITURE),
                   NewRef(document),
                   WithArgs(Reply("convert", cache_key, cache_key),
                            <<source0, result>>))

----------------------------------------------------------------------------
(* tools/manipulation.py *)

\* mutant: the title branch indents like the other items
TitleIndent_like_items(level, slevel) == level + slevel + 1

\* the title line has no indent
TitleIndent(level, slevel) == 0

\* one line of the overview: the number of indent steps ("  " each), the
\* anchor, the label, and the text when the line shows it; slevel is the
\* level of the last heading, the line's own when it is a heading
OverviewLine(doc, item, level, slevel) ==
    LET node == doc.nodes[item]
        line(indent, label, text) ==
            [ indent |-> indent, anchor |-> cref(doc, item),
              label |-> label, text |-> text, item |-> item ]
    IN  IF node.label = "title"
        THEN line(TitleIndent(level, slevel), node.label, node.text)
        ELSE IF node.label = "section_header"
        THEN line(level + slevel, node.label \o "-" \o ToString(level),
                  node.text)
        ELSE line(level + slevel + 1, node.label, "")

\* the loop of get_overview over doc.iterate_items(), which carries slevel
RECURSIVE OverviewLines(_, _, _)
OverviewLines(doc, items, slevel) ==
    IF items = << >>
    THEN << >>
    ELSE LET item  == Head(items).item
             level == Head(items).level
             s1    == IF doc.nodes[item].label = "section_header"
                      THEN doc.nodes[item].level
                      ELSE slevel
         IN  << OverviewLine(doc, item, level, s1) >>
                 \o OverviewLines(doc, Tail(items), s1)

\* the lines of the overview of a document
Overview(doc) == OverviewLines(doc, IterateChildren(doc, doc.body, 1), 0)

\* "  " * indent
RECURSIVE Indent(_)
Indent(n) == IF n = 0 THEN "" ELSE "  " \o Indent(n - 1)

\* f"{indent}[anchor:{ref.cref}] {item.label}", with ": {item.text}" on
\* the lines of titles and headings
LineText(line) ==
    Indent(line.indent) \o "[anchor:" \o line.anchor \o "] " \o line.label
        \o (IF line.text = "" THEN "" ELSE ": " \o line.text)

\* "\n".join(lines)
RECURSIVE JoinLines(_)
JoinLines(lines) ==
    IF lines = << >> THEN ""
    ELSE IF Len(lines) = 1 THEN LineText(lines[1])
    ELSE LineText(Head(lines)) \o "\n" \o JoinLines(Tail(lines))

get_overview_of_document_anchors(S, document_key) ==
    IF Missing(S, document_key)
    THEN Same(S, NotFound(S, "get_overview", document_key))
    ELSE Same(S, Reply("get_overview", document_key,
                       JoinLines(Overview(S.cache[document_key]))))

\* f"The text of {document_anchor} for document-key with {document_key}
\* is:\n\n```{text}```\n\n"; the code fence is written ''' here
TextMessage(document_anchor, document_key, text) ==
    "The text of " \o document_anchor \o " for document-key with "
        \o document_key \o " is:\n\n'''" \o text \o "'''\n\n"

get_text_of_document_item_at_anchor(S, document_key, document_anchor) ==
    IF Missing(S, document_key)
    THEN Same(S, NotFound(S, "get_text", document_key))
    ELSE LET doc  == S.cache[document_key]
             item == resolve(doc, document_anchor)
             args == <<document_anchor>>
         IN  IF item = 0
             THEN Same(S, WithArgs(Raise("get_text", document_key,
                                         "bad_anchor"), args))
             ELSE IF IsTextItem(doc, item)
             THEN Same(S, WithArgs(Reply("get_text", document_key,
                                         TextMessage(document_anchor,
                                                     document_key,
                                                     doc.nodes[item].text)),
                                   args))
             ELSE Same(S, WithArgs(Raise("get_text", document_key,
                                         "wrong_kind"), args))

\* mutant: "item.text += updated_text"
SetText_append(doc, item, updated_text) ==
    [ doc EXCEPT !.nodes[item].text = @ \o updated_text ]

\* "item.text = updated_text"
SetText(doc, item, updated_text) ==
    [ doc EXCEPT !.nodes[item].text = updated_text ]

update_text_of_document_item_at_anchor(S, document_key, document_anchor, updated_text) ==
    IF Missing(S, document_key)
    THEN Same(S, NotFound(S, "update_text", document_key))
    ELSE LET doc  == S.cache[document_key]
             item == resolve(doc, document_anchor)
             args == <<document_anchor, updated_text>>
         IN  IF item = 0
             THEN Same(S, WithArgs(Raise("update_text", document_key,
                                         "bad_anchor"), args))
             ELSE IF IsTextItem(doc, item)
             THEN Result([ S.cache EXCEPT ![document_key] =
                             SetText(doc, item, updated_text) ],
                         S.stacks,
                         WithArgs(Reply("update_text", document_key,
                                        document_key), args))
             ELSE Same(S, WithArgs(Raise("update_text", document_key,
                                         "wrong_kind"), args))

\* mutant: the anchors that resolve are deleted before the failure of the
\* others is reported
delete_resolved_first(S, document_key, document_anchors) ==
    IF Missing(S, document_key)
    THEN Same(S, NotFound(S, "delete", document_key))
    ELSE LET doc   == S.cache[document_key]
             items == [ i \in 1..Len(document_anchors) |->
                          resolve(doc, document_anchors[i]) ]
             found == SelectSeq(items, LAMBDA r : r # 0)
             args  == <<document_anchors>>
         IN  IF Cardinality(ToBeDeleted(doc, found)) < Len(found)
             THEN Same(S, WithArgs(Raise("delete", document_key,
                                         "not_in_tree"), args))
             ELSE Result([ S.cache EXCEPT ![document_key] =
                             delete_items(doc, found) ],
                         S.stacks,
                         WithArgs(IF Len(found) < Len(items)
                                  THEN Raise("delete", document_key,
                                             "bad_anchor")
                                  ELSE Reply("delete", document_key,
                                             document_key), args))

delete_document_items_at_anchors(S, document_key, document_anchors) ==
    IF Missing(S, document_key)
    THEN Same(S, NotFound(S, "delete", document_key))
    ELSE LET doc   == S.cache[document_key]
             items == [ i \in 1..Len(document_anchors) |->
                          resolve(doc, document_anchors[i]) ]
             args  == <<document_anchors>>
         IN  IF \E i \in 1..Len(items) : items[i] = 0
             THEN Same(S, WithArgs(Raise("delete", document_key,
                                         "bad_anchor"), args))
             ELSE IF Cardinality(ToBeDeleted(doc, items)) < Len(items)
             THEN Same(S, WithArgs(Raise("delete", document_key,
                                         "not_in_tree"), args))
             ELSE Result([ S.cache EXCEPT ![document_key] =
                             delete_items(doc, items) ],
                         S.stacks,
                         WithArgs(Reply("delete", document_key,
                                        document_key), args))

----------------------------------------------------------------------------
(* JSON values, and validate_data_against_schema (tools/manipulation.py)   *)

JsonKeys == {"a", "b"}

\* a str
Str(x) == [ kind |-> "str", s |-> x, items |-> << >> ]

\* a number: a value that is neither a str, a list nor a dict
Num == [ kind |-> "num", s |-> "1", items |-> << >> ]

\* a list
List(items) == [ kind |-> "list", s |-> "", items |-> items ]

\* a dict: fields maps its keys to their values
Dict(fields) == [ kind |-> "dict", fields |-> fields ]

\* isinstance(value, dict)
IsDict(value) == value.kind = "dict"

\* the values of the entries of the data that are no dicts
DataLeaves == { Str("x"), Num, List(<<Str("x")>>), List(<<Str("x"), Num>>) }

\* the defaults of a schema
SchemaLeaves == { Str(""), List(<< >>) }

\* the dicts over JsonKeys nested at most depth deep
RECURSIVE Dicts(_, _)
Dicts(leaves, depth) ==
    LET values == IF depth = 1 THEN leaves
                  ELSE leaves \cup Dicts(leaves, depth - 1)
    IN  { Dict(f) : f \in UNION { [ks -> values] : ks \in SUBSET JsonKeys } }

RECURSIVE _make_empty_value(_)
_make_empty_value(default) ==
    IF IsDict(default)
    THEN Dict([ k \in DOMAIN default.fields |->
                  _make_empty_value(default.fields[k]) ])
    ELSE default

\* mutant: the items of a list are not tested
_is_valid_value_type_any_list(value) == value.kind \in {"str", "list"}

_is_valid_value_type(value) ==
    \/ value.kind = "str"
    \/ /\ value.kind = "list"
       /\ \A i \in 1..Len(value.items) : value.items[i].kind = "str"

RECURSIVE validate_data_against_schema(_, _)
validate_data_against_schema(data, schema) ==
    Dict([ key \in DOMAIN schema.fields |->
             LET expected == schema.fields[key]
             IN  IF key \notin DOMAIN data.fields
                 THEN _make_empty_value(expected)
                 ELSE LET candidate == data.fields[key]
                      IN  IF IsDict(expected)
                          THEN IF IsDict(candidate)
                               THEN validate_data_against_schema(candidate,
                                                                 expected)
                               ELSE _make_empty_value(expected)
                          ELSE IF _is_valid_value_type(candidate)
                               THEN candidate
                               ELSE expected ])

Threads == 1..MaxThreads

\* a thread that runs no handler
NoCall ==
    [ pc |-> "idle", op |-> "none", key |-> "", text |-> "", seen |-> << >>,
      item |-> 0, err |-> "none" ]

\* no validation was asked for
NotValidated ==
    [ data |-> Dict(<< >>), schema |-> Dict(<< >>), validated |-> Dict(<< >>),
      done |-> FALSE ]

\* the tool is called with a dict and a schema
ValidateInit ==
    /\ local_document_cache = << >>
    /\ local_stack_cache = << >>
    /\ reply = Idle
    /\ before = [ cache |-> << >>, stacks |-> << >> ]
    /\ opened = [ k \in Keys |-> 0 ]
    /\ closed = [ k \in Keys |-> 0 ]
    /\ deleted = [ k \in Keys |-> {} ]
    /\ edits = 0
    /\ calls = [ t \in Threads |-> NoCall ]
    /\ raced = {}
    /\ unclosed = [ k \in Keys |-> {} ]
    /\ \E data \in Dicts(DataLeaves, MaxDepth),
          schema \in Dicts(SchemaLeaves, MaxDepth) :
            validation = [ NotValidated EXCEPT !.data = data,
                                               !.schema = schema ]

\* the tool returns
Validate ==
    /\ ~validation.done
    /\ validation' =
          [ validation EXCEPT
              !.validated = validate_data_against_schema(validation.data,
                                                         validation.schema),
              !.done = TRUE ]
    /\ UNCHANGED <<local_document_cache, local_stack_cache, reply, before,
                   opened, closed, deleted, edits, calls, raced, unclosed>>

ValidateSpec == ValidateInit /\ [][Validate]_vars

----------------------------------------------------------------------------
(* The server: it answers one call at a time *)

\* the registry and the stacks as a call finds them
Now == [ cache |-> local_document_cache, stacks |-> local_stack_cache ]

RECURSIVE TotalNodes(_, _)
TotalNodes(cache, keys) ==
    IF keys = {} THEN 0
    ELSE LET k == CHOOSE x \in keys : TRUE
         IN  Len(cache[k].nodes) + TotalNodes(cache, keys \ {k})

\* the registry stays within the bound on node objects
Fits(cache) == TotalNodes(cache, DOMAIN cache) <= MaxNodes

Count(n, op, r) == IF r.op = op /\ r.ok THEN n + 1 ELSE n

\* the largest element of a set of numbers (0 for the empty set): of a
\* set of objects of one document, the one created last
SetMax(set) == IF set = {} THEN 0 ELSE CHOOSE x \in set : \A y \in set : y <= x

\* a call runs to completion: the registry and the stacks become what the
\* handler leaves, and its outcome is what the caller gets
Call(R) ==
    LET r == R.reply
        fresh == r.op \in {"create", "convert"} /\ r.ok /\ r.status
        n == IF r.op \in {"update_text", "delete"} /\ r.ok
             THEN edits + 1 ELSE edits
    IN  /\ reply = Idle
        /\ Fits(R.cache)
        /\ n <= MaxAnchorEdits
        /\ local_document_cache' = R.cache
        /\ local_stack_cache' = R.stacks
        /\ reply' = r
        /\ before' = Now
        /\ edits' = n
        /\ opened' = IF fresh THEN [ opened EXCEPT ![r.key] = 0 ]
                     ELSE IF r.op = "open_list" /\ r.ok
                     THEN [ opened EXCEPT ![r.key] = @ + 1 ]
                     ELSE opened
        /\ closed' = IF fresh THEN [ closed EXCEPT ![r.key] = 0 ]
                     ELSE IF r.op = "close_list" /\ r.ok
                     THEN [ closed EXCEPT ![r.key] = @ + 1 ]
                     ELSE closed
        /\ deleted' = IF fresh THEN [ deleted EXCEPT ![r.key] = {} ]
                      ELSE IF r.op = "delete" /\ r.ok
                      THEN [ deleted EXCEPT
                               ![r.key] = @ \cup Range(r.args[1]) ]
                      ELSE deleted
        /\ unclosed' = IF fresh THEN [ unclosed EXCEPT ![r.key] = {} ]
                       ELSE IF r.op = "open_list" /\ r.ok
                       THEN [ unclosed EXCEPT
                                ![r.key] = @ \cup {Len(R.cache[r.key].nodes)} ]
                       ELSE IF r.op = "close_list" /\ r.ok
                       THEN [ unclosed EXCEPT ![r.key] = @ \ {SetMax(@)} ]
                       ELSE unclosed
        /\ UNCHANGED <<calls, raced, validation>>

\* the caller has its answer; the server takes the next call
Respond ==
    /\ reply # Idle
    /\ reply' = Idle
    /\ before' = Now
    /\ UNCHANGED <<local_document_cache, local_stack_cache, opened, closed,
                   deleted, edits, calls, raced, validation, unclosed>>

Init ==
    /\ local_document_cache = << >>
    /\ local_stack_cache = << >>
    /\ reply = Idle
    /\ before = [ cache |-> << >>, stacks |-> << >> ]
    /\ opened = [ k \in Keys |-> 0 ]
    /\ closed = [ k \in Keys |-> 0 ]
    /\ deleted = [ k \in Keys |-> {} ]
    /\ edits = 0
    /\ calls = [ t \in Threads |-> NoCall ]
    /\ raced = {}
    /\ validation = NotValidated
    /\ unclosed = [ k \in Keys |-> {} ]

CreateDocument ==
    \E p \in Prompts : Call(create_new_docling_document(Now, p))

Convert ==
    \E s \in Sources, r \in ConversionResults :
        Call(convert_pdf_document_into_json_docling_document_from_uri_path(
                 Now, s, r))

IsInCache == \E k \in Keys : Call(is_document_in_local_cache(Now, k))

Export == \E k \in Keys : Call(export_docling_document_to_markdown(Now, k))

Save == \E k \in Keys : Call(save_docling_document(Now, k))

AddTitle ==
    \E k \in Keys, t \in Texts :
        Call(add_title_to_docling_document(Now, k, t))

AddSectionHeading ==
    \E k \in Keys, t \in Texts, l \in Levels :
        Call(add_section_heading_to_docling_document(Now, k, t, l))

AddParagraph ==
    \E k \in Keys, t \in Texts :
        Call(add_paragraph_to_docling_document(Now, k, t))

OpenList == \E k \in Keys : Call(open_list_in_docling_document(Now, k))

CloseList == \E k \in Keys : Call(close_list_in_docling_document(Now, k))

AddListItemsCall ==
    \E k \in Keys, items \in ItemLists :
        Call(add_list_items_to_list_in_docling_document(Now, k, items))

AddTable ==
    \E k \in Keys, h \in HtmlTables, c \in CaptionLists,
       f \in FootnoteLists :
        Call(add_table_in_html_format_to_docling_document(Now, k, h, c, f))

GetOverview == \E k \in Keys : Call(get_overview_of_document_anchors(Now, k))

GetText ==
    \E k \in Keys, a \in AnchorPool :
        Call(get_text_of_document_item_at_anchor(Now, k, a))

UpdateText ==
    \E k \in Keys, a \in AnchorPool, t \in NewTexts :
        Call(update_text_of_document_item_at_anchor(Now, k, a, t))

Delete ==
    \E k \in Keys, a \in AnchorLists :
        Call(delete_document_items_at_anchors(Now, k, a))

Next ==
    \/ CreateDocument
    \/ Convert
    \/ IsInCache
    \/ Export
    \/ Save
    \/ AddTitle
    \/ AddSectionHeading
    \/ AddParagraph
    \/ OpenList
    \/ CloseList
    \/ AddListItemsCall
    \/ AddTable
    \/ GetOverview
    \/ GetText
    \/ UpdateText
    \/ Delete
    \/ Respond

Spec == Init /\ [][Next]_vars

----------------------------------------------------------------------------
(* Handlers that overlap.  The handlers take no lock, so when two of them  *)
(* run on threads, one runs between the steps of the other.  A handler of  *)
(* a structural edit has three steps: its precondition checks, the         *)
(* insertion into the document (a library call, taken as one step), and   *)
(* the write to the stack.  close_list has no insertion.                   *)

LeafOps == {"add_title", "add_section_heading", "add_paragraph"}

StackOps == LeafOps \cup {"open_list", "close_list"}

\* mutant: the leaf handlers do not test for an open list
Checked_unguarded(S, op, document_key) ==
    IF Missing(S, document_key) THEN "not_found"
    ELSE IF op = "close_list"
    THEN IF NothingToClose(S.stacks[document_key])
         THEN "validation" ELSE "none"
    ELSE IF Len(S.stacks[document_key]) = 0 THEN "stack_zero"
    ELSE "none"

\* the precondition checks of a handler: the error it raises, or "none"
Checked(S, op, document_key) ==
    IF Missing(S, document_key) THEN "not_found"
    ELSE LET doc   == S.cache[document_key]
             stack == S.stacks[document_key]
         IN  IF op = "close_list"
             THEN IF NothingToClose(stack) THEN "validation" ELSE "none"
             ELSE IF Len(stack) = 0 THEN "stack_zero"
             ELSE IF op \in LeafOps /\ IsOpenList(doc, Last(stack))
             THEN "validation"
             ELSE "none"

\* item = local_document_cache[document_key].add_...(...)
Inserted(doc, op, text) ==
    CASE op = "add_title" -> add_title(doc, text)
      [] op = "add_section_heading" -> add_heading(doc, text, 1)
      [] op = "add_paragraph" -> add_text(doc, "text", text, BODY)
      [] op = "open_list" -> add_group(doc, "list")

\* "stack[-1] = item" and "stack.pop()" raise IndexError on an empty list
WriteRaises(stack, op) == op # "open_list" /\ Len(stack) = 0

\* the stack after the handler's write
Written(stack, op, item) ==
    CASE op = "close_list" -> Pop(stack)
      [] op = "open_list" -> Append(stack, item)
      [] OTHER -> ReplaceTop(stack, item)

\* a thread takes a call and runs its checks, on the stack as it is now
CheckStep(t) ==
    \E op \in StackOps, k \in Keys, text \in Texts :
        LET err == Checked(Now, op, k)
        IN  /\ calls[t].pc = "idle"
            /\ calls' = [ calls EXCEPT ![t] =
                  [ pc |-> IF err = "none" THEN "checked" ELSE "idle",
                    op |-> op, key |-> k, text |-> text,
                    seen |-> IF err = "none" THEN local_stack_cache[k]
                             ELSE << >>,
                    item |-> 0, err |-> err ] ]
            /\ UNCHANGED <<local_document_cache, local_stack_cache, reply,
                           before, opened, closed, deleted, edits, raced,
                           validation, unclosed>>

\* the insertion of the new node into the document
InsertStep(t) ==
    LET c   == calls[t]
        doc == local_document_cache[c.key]
    IN  /\ c.pc = "checked"
        /\ c.op # "close_list"
        /\ Len(doc.nodes) < MaxNodes
        /\ local_document_cache' =
               [ local_document_cache EXCEPT
                   ![c.key] = Inserted(doc, c.op, c.text) ]
        /\ calls' = [ calls EXCEPT ![t].pc = "inserted",
                                   ![t].item = NewRef(doc) ]
        /\ UNCHANGED <<local_stack_cache, reply, before, opened, closed,
                       deleted, edits, raced, validation, unclosed>>

\* the write to the stack, on the stack as it is now
WriteStep(t) ==
    LET c     == calls[t]
        stack == local_stack_cache[c.key]
    IN  /\ c.pc = IF c.op = "close_list" THEN "checked" ELSE "inserted"
        /\ local_stack_cache' =
               IF WriteRaises(stack, c.op) THEN local_stack_cache
               ELSE [ local_stack_cache EXCEPT
                        ![c.key] = Written(stack, c.op, c.item) ]
        /\ calls' = [ calls EXCEPT
                        ![t].pc = "idle",
                        ![t].err = IF WriteRaises(stack, c.op)
                                   THEN "index" ELSE "none" ]
        /\ raced' = IF stack # c.seen THEN raced \cup {c.key} ELSE raced
        /\ UNCHANGED <<local_document_cache, reply, before, opened, closed,
                       deleted, edits, validation, unclosed>>

\* a registry with one created document, and no handler running
ConcInit ==
    LET R == create_new_docling_document(
                 [ cache |-> << >>, stacks |-> << >> ], "p1")
    IN  /\ local_document_cache = R.cache
        /\ local_stack_cache = R.stacks
        /\ reply = Idle
        /\ before = [ cache |-> R.cache, stacks |-> R.stacks ]
        /\ opened = [ k \in Keys |-> 0 ]
        /\ closed = [ k \in Keys |-> 0 ]
        /\ deleted = [ k \in Keys |-> {} ]
        /\ edits = 0
        /\ calls = [ t \in Threads |-> NoCall ]
        /\ raced = {}
        /\ validation = NotValidated
    /\ unclosed = [ k \in Keys |-> {} ]

ConcNext == \E t \in Threads : CheckStep(t) \/ InsertStep(t) \/ WriteStep(t)

ConcSpec == ConcInit /\ [][ConcNext]_vars

----------------------------------------------------------------------------
(* Properties.  In a state where reply is the outcome of a call, before is *)
(* what the call found and the registry and the stacks are what it left.   *)

Doc(k) == local_document_cache[k]

Stack(k) == local_stack_cache[k]

Registered == DOMAIN local_document_cache

OldDoc(k) == before.cache[k]

OldStack(k) == before.stacks[k]

\* the keys of the registry when the call came
WasRegistered == DOMAIN before.cache

\* the stack top of document k is a list group
TopIsList(k) ==
    Doc(k).nodes[Stack(k)[Len(Stack(k))]].label \in {"list", "ordered_list"}

\* the stack top of document k was a list group when the call came
TopWasList(k) ==
    OldDoc(k).nodes[OldStack(k)[Len(OldStack(k))]].label
        \in {"list", "ordered_list"}

\* the call left the registry and the stacks as it found them
NothingChanged ==
    /\ local_document_cache = before.cache
    /\ local_stack_cache = before.stacks

\* C1: every document of the registry has a build stack with at least one
\* entry, and a document starts with exactly one entry, the sentinel that
\* create or convert add to the document they store.
C1_StackNeverEmpty ==
    /\ \A k \in Registered :
          /\ k \in DOMAIN local_stack_cache
          /\ Len(Stack(k)) >= 1
    /\ (reply.op \in {"create", "convert"} /\ reply.ok /\ reply.status)
       => LET d  == Doc(reply.key)
              st == Stack(reply.key)
          IN  /\ Len(st) = 1
              /\ st[1] = Len(d.nodes)
              /\ st[1] = Last(d.texts)
              /\ d.nodes[st[1]].label = "text"
              /\ d.nodes[st[1]].content_layer = FURNITURE

\* a close_list has brought a stack back to its single bottom entry
C1_Witness ==
    /\ reply.op = "close_list"
    /\ reply.ok
    /\ Len(Stack(reply.key)) = 1

\* C2: while the stack top of K is a list group, add_title,
\* add_section_heading and add_paragraph on K raise the validation error and
\* leave K's tree and K's stack as they were.
C2_NoLeafInOpenList ==
    \A k \in WasRegistered :
        (TopWasList(k) /\ reply.op \in LeafOps /\ reply.key = k)
        => /\ ~reply.ok
           /\ reply.err = "validation"
           /\ Doc(k) = OldDoc(k)
           /\ Stack(k) = OldStack(k)

\* add_paragraph was refused on a document whose list is open
C2_Witness ==
    /\ reply.op = "add_paragraph"
    /\ reply.err = "validation"
    /\ TopWasList(reply.key)

\* C3: add_list_items on a known document returns only when the stack top
\* is a list group; on any other top it raises and leaves the registry and
\* the stacks as they were.
C3_ListItemsNeedOpenList ==
    \A k \in WasRegistered :
        (reply.op = "add_list_items" /\ reply.key = k)
        => /\ reply.ok => TopWasList(k)
           /\ ~TopWasList(k)
              => /\ ~reply.ok
                 /\ reply.err = "validation"
                 /\ NothingChanged

\* add_list_items was refused on a document whose stack top is a heading
C3_Witness ==
    /\ reply.op = "add_list_items"
    /\ reply.err = "validation"
    /\ OldDoc(reply.key).nodes[Last(OldStack(reply.key))].label
         = "section_header"

\* C4: close_list returns only at stack depth above 1; the successful
\* close_list calls of a document never outnumber its successful open_list
\* calls; at depth 1 close_list raises the validation error and leaves the
\* stack and the tree as they were; the bottom entry is never popped.
C4_CloseNeedsOpenList ==
    /\ \A k \in Registered :
          /\ closed[k] <= opened[k]
          /\ Len(Stack(k)) = 1 + opened[k] - closed[k]
    /\ \A k \in WasRegistered :
          (reply.op = "close_list" /\ reply.key = k)
          => /\ reply.ok => Len(OldStack(k)) > 1
             /\ Stack(k)[1] = OldStack(k)[1]
             /\ Len(OldStack(k)) = 1
                => /\ ~reply.ok
                   /\ reply.err = "validation"
                   /\ NothingChanged

\* a close_list was refused after every opened list had been closed
C4_Witness ==
    /\ reply.op = "close_list"
    /\ reply.err = "validation"
    /\ opened[reply.key] >= 1
    /\ closed[reply.key] = opened[reply.key]

\* C5: open_list followed at once by close_list gives back the stack as
\* it was before open_list, and close_list leaves every tree as open_list
\* left it.
C5_OpenCloseRestoresStack ==
    \A k \in Registered :
        LET o == open_list_in_docling_document(Now, k)
            c == close_list_in_docling_document(
                     [ cache |-> o.cache, stacks |-> o.stacks ], k)
        IN  o.reply.ok
            => /\ Len(o.stacks[k]) = Len(Stack(k)) + 1
               /\ c.reply.ok
               /\ c.stacks = local_stack_cache
               /\ c.cache = o.cache

\* a close_list has just popped a list group that has no items yet
C5_Witness ==
    /\ reply.op = "close_list"
    /\ reply.ok
    /\ local_document_cache = before.cache
    /\ LET d == Doc(reply.key)
       IN  /\ d.nodes[Len(d.nodes)].label = "list"
           /\ d.nodes[Len(d.nodes)].children = <<>>
           /\ Last(OldStack(reply.key)) = Len(d.nodes)
           /\ Len(d.nodes) \notin Range(Stack(reply.key))

\* the label of the node that a leaf operation inserts
LeafLabel(op) ==
    CASE op = "add_title" -> "title"
      [] op = "add_section_heading" -> "section_header"
      [] op = "add_paragraph" -> "text"

\* C6: a successful add_title, add_section_heading or add_paragraph finds a
\* top that is no list group, inserts exactly one node of its kind (a
\* heading with the given level) into the tree, puts it on the stack top,
\* and leaves the stack depth and the entries below the top as they were.
C6_LeafReplacesTop ==
    (reply.op \in LeafOps /\ reply.ok)
    => LET k   == reply.key
           d   == OldDoc(k)
           e   == Doc(k)
           st  == OldStack(k)
           new == Len(d.nodes) + 1
       IN  /\ ~TopWasList(k)
           /\ Len(e.nodes) = new
           /\ \A r \in 1..Len(d.nodes) : e.nodes[r] = d.nodes[r]
           /\ e.nodes[new].label = LeafLabel(reply.op)
           /\ e.nodes[new].text = reply.args[1]
           /\ reply.op = "add_section_heading"
              => e.nodes[new].level = reply.args[2]
           /\ e.nodes[new].parent = 0
           /\ e.texts = Append(d.texts, new)
           /\ e.body = Append(d.body, new)
           /\ e.groups = d.groups
           /\ e.tables = d.tables
           /\ Len(Stack(k)) = Len(st)
           /\ Stack(k)[Len(st)] = new
           /\ \A i \in 1..(Len(st) - 1) : Stack(k)[i] = st[i]

\* a heading of level 2 was added and is the stack top
C6_Witness ==
    /\ reply.op = "add_section_heading"
    /\ reply.ok
    /\ reply.args[2] = 2
    /\ LET d == Doc(reply.key)
       IN  /\ d.nodes[Last(Stack(reply.key))].label = "section_header"
           /\ d.nodes[Last(Stack(reply.key))].level = 2

\* C7: a successful add_list_items inserts one list item per entry, with
\* the entry's text and marker, as the children of the list group on the
\* stack top that follow the children it had, in the order of the entries,
\* and leaves the stack as it was.
C7_ListItemsInOrder ==
    (reply.op = "add_list_items" /\ reply.ok)
    => LET k     == reply.key
           d     == OldDoc(k)
           e     == Doc(k)
           items == reply.args[1]
           g     == OldStack(k)[Len(OldStack(k))]
           n     == Len(d.nodes)
           added == [ i \in 1..Len(items) |-> n + i ]
       IN  /\ local_stack_cache = before.stacks
           /\ Len(e.nodes) = n + Len(items)
           /\ \A i \in 1..Len(items) :
                /\ e.nodes[n + i].label = "list_item"
                /\ e.nodes[n + i].text = items[i].list_item_text
                /\ e.nodes[n + i].marker = items[i].list_marker_text
                /\ e.nodes[n + i].parent = g
           /\ e.nodes[g].children = d.nodes[g].children \o added
           /\ \A r \in (1..n) \ {g} : e.nodes[r] = d.nodes[r]
           /\ e.texts = d.texts \o added
           /\ e.body = d.body
           /\ e.groups = d.groups
           /\ e.tables = d.tables

\* two different items were added by one call
C7_Witness ==
    /\ reply.op = "add_list_items"
    /\ reply.ok
    /\ Len(reply.args[1]) = 2
    /\ reply.args[1][1] # reply.args[1][2]

\* C8 as stated: a create returns the digest of its prompt, and a create
\* whose key is in the registry leaves the document and the stack stored
\* under the key as they were.
C8_CreateKeepsDocument ==
    reply.op = "create"
    => /\ reply.ok
       /\ \E p \in Prompts : reply.ret = hash_string_md5(p)
       /\ reply.ret = reply.key
       /\ reply.key \in WasRegistered
          => /\ Doc(reply.key) = OldDoc(reply.key)
             /\ Stack(reply.key) = OldStack(reply.key)

\* C9: a convert whose cache key is in the registry returns the status
\* false and leaves the registry and the stacks as they were.
C9_ConvertKeepsDocument ==
    (reply.op = "convert" /\ reply.key \in WasRegistered)
    => /\ reply.ok
       /\ ~reply.status
       /\ NothingChanged

\* a convert returned false for a document that was edited after its
\* conversion
C9_Witness ==
    /\ reply.op = "convert"
    /\ reply.ok
    /\ ~reply.status
    /\ Len(Doc(reply.key).body) >= 2
    /\ Len(Stack(reply.key)) = 2

KeyedOps ==
    { "export", "save", "add_title", "add_section_heading", "add_paragraph",
      "open_list", "close_list", "add_list_items", "add_table",
      "get_overview", "get_text", "update_text", "delete" }

\* C10: an operation on a document key that is not in the registry raises
\* the not-found error, which lists the keys of the registry, and leaves the
\* registry and the stacks as they were, with no entry for the key.
C10_UnknownKeyNotFound ==
    (reply.op \in KeyedOps /\ reply.key \notin WasRegistered)
    => /\ ~reply.ok
       /\ reply.err = "not_found"
       /\ reply.listed = WasRegistered
       /\ NothingChanged
       /\ reply.key \notin DOMAIN local_document_cache
       /\ reply.key \notin DOMAIN local_stack_cache

\* a delete on an unknown key was refused while another document is known
C10_Witness ==
    /\ reply.op = "delete"
    /\ reply.err = "not_found"
    /\ reply.key \notin Registered
    /\ reply.listed = Registered
    /\ Registered # {}

\* the anchors of a call resolve in the document the call found
Resolved(k, anchor) == resolve(OldDoc(k), anchor) # 0

\* C11: a delete whose list holds an anchor that does not resolve in the
\* document raises and deletes nothing: the document and the stacks are as
\* the call found them, and every listed anchor resolves to the node it
\* resolved to before.
C11_DeleteResolvesAllFirst ==
    \A k \in WasRegistered :
        (/\ reply.op = "delete"
         /\ reply.key = k
         /\ \E i \in 1..Len(reply.args[1]) : ~Resolved(k, reply.args[1][i]))
        => /\ ~reply.ok
           /\ reply.err = "bad_anchor"
           /\ NothingChanged
           /\ \A a \in Range(reply.args[1]) :
                resolve(Doc(k), a) = resolve(OldDoc(k), a)

\* a delete was refused whose list names a paragraph of the document and an
\* anchor that does not resolve
C11_Witness ==
    /\ reply.op = "delete"
    /\ reply.err = "bad_anchor"
    /\ LET anchors == reply.args[1]
           d == OldDoc(reply.key)
       IN  /\ Len(anchors) = 2
           /\ resolve(d, anchors[1]) \in Iterated(d)
           /\ resolve(d, anchors[2]) = 0
           /\ resolve(Doc(reply.key), anchors[1]) = resolve(d, anchors[1])

\* the nodes of the tree of a document: the nodes below the body
InTree(doc) ==
    Range(doc.body) \cup UNION { Descendants(doc, c) : c \in Range(doc.body) }

\* C12 as stated: a successful delete takes the addressed nodes and the
\* nodes below them out of the tree, and an anchor that a successful delete
\* on a document was given never resolves in that document again.
C12_DeletedAnchorsStayInvalid ==
    /\ (reply.op = "delete" /\ reply.ok)
       => LET d == OldDoc(reply.key)
              items == { resolve(d, a) : a \in Range(reply.args[1]) }
          IN  \A r \in items \cup UNION { Descendants(d, i) : i \in items } :
                r \notin InTree(Doc(reply.key))
    /\ \A k \in Registered :
          \A a \in deleted[k] : resolve(Doc(k), a) = 0

\* the nodes of a document that exist: the nodes its collections hold
Existing(doc) == Range(doc.texts) \cup Range(doc.groups) \cup Range(doc.tables)

\* the call stored a new document under its key
Fresh == reply.op \in {"create", "convert"} /\ reply.ok /\ reply.status

\* C13 as stated: the nodes of a document have different anchors, and a
\* call on the document leaves every node that exists before and after it
\* with the anchor it had, which still resolves to it.
C13_AnchorsAreStable ==
    /\ \A k \in Registered :
          \A r1, r2 \in Existing(Doc(k)) :
              cref(Doc(k), r1) = cref(Doc(k), r2) => r1 = r2
    /\ \A k \in WasRegistered :
          ~(Fresh /\ reply.key = k)
          => \A r \in Existing(OldDoc(k)) \cap Existing(Doc(k)) :
                /\ cref(Doc(k), r) = cref(OldDoc(k), r)
                /\ resolve(Doc(k), cref(OldDoc(k), r)) = r

\* the collection of the kind of a node
Category(doc, r) ==
    IF IsTextItem(doc, r) THEN "texts"
    ELSE IF IsGroupItem(doc, r) THEN "groups"
    ELSE "tables"

\* the nodes of the kind of r that the document created before r
CreatedBefore(doc, r) ==
    { q \in 1..(r - 1) : Category(doc, q) = Category(doc, r) }

\* C14 as stated: the anchor of a node is "#/", the collection of its kind,
\* "/" and the number of nodes of that collection that its document created
\* before it; the sentinel of a created document is "#/texts/0".
C14_AnchorIsCreationIndex ==
    /\ \A k \in Registered :
          \A r \in Existing(Doc(k)) :
              cref(Doc(k), r) =
                  Anchor(Category(Doc(k), r),
                         Cardinality(CreatedBefore(Doc(k), r)))
    /\ (reply.op = "create" /\ reply.ok)
       => cref(Doc(reply.key), Stack(reply.key)[1]) = "#/texts/0"

\* C15: update_text on an anchor that resolves to a text item succeeds and
\* replaces the text of that item: a get_text on the same anchor then
\* returns the message of the new text, the document is the document the
\* call found with that one text replaced, and the other documents and the
\* stacks are as they were.
C15_UpdateReplacesText ==
    \A k \in WasRegistered :
        LET d    == OldDoc(k)
            item == resolve(d, reply.args[1])
            text == reply.args[2]
            read == get_text_of_document_item_at_anchor(Now, k,
                                                        reply.args[1])
        IN  (/\ reply.op = "update_text"
             /\ reply.key = k
             /\ item # 0
             /\ IsTextItem(d, item))
            => /\ reply.ok
               /\ read.reply.ok
               /\ read.reply.ret = TextMessage(reply.args[1], k, text)
               /\ Doc(k).nodes[item].text = text
               /\ \A r \in 1..Len(d.nodes) :
                    r # item => Doc(k).nodes[r] = d.nodes[r]
               /\ Doc(k) = [ d EXCEPT !.nodes[item].text = text ]
               /\ \A j \in WasRegistered \ {k} : Doc(j) = OldDoc(j)
               /\ DOMAIN local_document_cache = WasRegistered
               /\ local_stack_cache = before.stacks

\* the text of the first of two paragraphs was replaced by another text
C15_Witness ==
    /\ reply.op = "update_text"
    /\ reply.ok
    /\ reply.args[1] = "#/texts/1"
    /\ LET d == OldDoc(reply.key)
       IN  /\ Len(d.texts) >= 3
           /\ d.nodes[d.texts[2]].text # reply.args[2]
           /\ Doc(reply.key).nodes[d.texts[2]].text = reply.args[2]

\* C16: get_text and update_text on an anchor that resolves to a list group
\* or to a table raise the wrong-kind error, and the registry and the
\* stacks are as the call found them.
C16_WrongKindRefused ==
    \A k \in WasRegistered :
        LET d    == OldDoc(k)
            item == resolve(d, reply.args[1])
        IN  (/\ reply.op \in {"get_text", "update_text"}
             /\ reply.key = k
             /\ item # 0
             /\ d.nodes[item].label \in GroupLabels \cup {"table"})
            => /\ ~reply.ok
               /\ reply.err = "wrong_kind"
               /\ NothingChanged

\* an update_text on the anchor of a table was refused
C16_Witness ==
    /\ reply.op = "update_text"
    /\ reply.err = "wrong_kind"
    /\ reply.args[1] = "#/tables/0"
    /\ LET d == OldDoc(reply.key)
       IN  /\ Len(d.tables) = 1
           /\ d.nodes[d.tables[1]].label = "table"

\* the conversion of the html of an add_table call found a table
Parsed(html_table) ==
    /\ HtmlConversion(html_table).status = "success"
    /\ Len(HtmlConversion(html_table).tables) > 0

\* C17: an add_table whose html does not convert, or converts to no
\* table, raises, and the registry and the stacks are as the call found
\* them: no table, caption or footnote was inserted.
C17_TableParsedBeforeInsert ==
    \A k \in WasRegistered :
        (/\ reply.op = "add_table"
         /\ reply.key = k
         /\ ~Parsed(reply.args[1]))
        => /\ ~reply.ok
           /\ reply.err = "invalid_input"
           /\ NothingChanged
           /\ Len(Doc(k).nodes) = Len(OldDoc(k).nodes)

\* an add_table with two captions and html without a table was refused
C17_Witness ==
    /\ reply.op = "add_table"
    /\ reply.err = "invalid_input"
    /\ reply.args[1] = "none"
    /\ Len(reply.args[2]) = 2

\* C18: an add_table on a known document whose html converts to a table
\* succeeds, whatever the stack top is; it inserts one table with the data
\* of the first table found, one caption per caption text and one footnote
\* per footnote text, whose references the table holds in the order of the
\* texts; it returns the message that names the key and leaves the stacks
\* and the nodes the document had as they were.
C18_TableInserted ==
    \A k \in WasRegistered :
        (/\ reply.op = "add_table"
         /\ reply.key = k
         /\ Parsed(reply.args[1]))
        => LET d  == OldDoc(k)
               e  == Doc(k)
               n  == Len(d.nodes)
               t  == n + 1
               captions  == reply.args[2]
               footnotes == reply.args[3]
               c  == [ i \in 1..Len(captions) |-> t + i ]
               f  == [ i \in 1..Len(footnotes) |-> t + Len(captions) + i ]
           IN  /\ reply.ok
               /\ reply.ret = "Added table to a document with key: " \o k
               /\ local_stack_cache = before.stacks
               /\ Len(e.nodes) = t + Len(captions) + Len(footnotes)
               /\ \A r \in 1..n : e.nodes[r] = d.nodes[r]
               /\ e.nodes[t].label = "table"
               /\ e.nodes[t].text = HtmlConversion(reply.args[1]).tables[1]
               /\ e.nodes[t].captions = c
               /\ e.nodes[t].footnotes = f
               /\ \A i \in 1..Len(captions) :
                    /\ e.nodes[c[i]].label = "caption"
                    /\ e.nodes[c[i]].text = captions[i]
               /\ \A i \in 1..Len(footnotes) :
                    /\ e.nodes[f[i]].label = "footnote"
                    /\ e.nodes[f[i]].text = footnotes[i]
               /\ e.tables = Append(d.tables, t)
               /\ e.texts = d.texts \o c \o f
               /\ e.groups = d.groups
               /\ e.body = d.body \o <<t>> \o c \o f
               /\ \A j \in WasRegistered \ {k} : Doc(j) = OldDoc(j)

\* a table with two different captions was added from html with two tables
C18_Witness ==
    /\ reply.op = "add_table"
    /\ reply.ok
    /\ reply.args[1] = "two"
    /\ Len(reply.args[2]) = 2
    /\ reply.args[2][1] # reply.args[2][2]
    /\ Len(Doc(reply.key).tables) = 1

\* a table with a footnote was added while a list is open
C18_InOpenList ==
    /\ reply.op = "add_table"
    /\ reply.ok
    /\ TopWasList(reply.key)
    /\ Len(reply.args[3]) = 1

\* C19 as stated: a successful open_list inserts one list group and pushes
\* it on the stack; when the stack top was a list group, the new group is a
\* child of that group and not of the body.
C19_NestedListUnderOpenList ==
    (reply.op = "open_list" /\ reply.ok)
    => LET k   == reply.key
           d   == OldDoc(k)
           e   == Doc(k)
           new == Len(d.nodes) + 1
           top == Last(OldStack(k))
       IN  /\ Len(e.nodes) = new
           /\ e.nodes[new].label = "list"
           /\ e.groups = Append(d.groups, new)
           /\ Stack(k) = Append(OldStack(k), new)
           /\ TopWasList(k)
              => /\ e.nodes[new].parent = top
                 /\ e.nodes[top].children = Append(d.nodes[top].children, new)
                 /\ new \notin Range(e.body)

ReadOps == {"get_overview", "get_text", "export", "is_in_cache"}

\* C20: get_overview, get_text, export and is_document_in_local_cache
\* leave the registry, the documents and the stacks as they found them,
\* whether they return or raise; is_document_in_local_cache returns, and
\* returns true exactly when its key is in the registry.
C20_ReadOpsChangeNothing ==
    /\ reply.op \in ReadOps => NothingChanged
    /\ reply.op = "is_in_cache"
       => /\ reply.ok
          /\ reply.status <=> (reply.key \in WasRegistered)

\* is_document_in_local_cache returned false for a key that is not in a
\* registry that holds a document with a list
C20_Witness ==
    /\ reply.op = "is_in_cache"
    /\ ~reply.status
    /\ reply.key \notin Registered
    /\ \E k \in Registered : Len(Doc(k).groups) >= 1

\* a get_text returned the text of a list item
C20_ReadReturned ==
    /\ reply.op = "get_text"
    /\ reply.ok
    /\ LET d == Doc(reply.key)
       IN  d.nodes[resolve(d, reply.args[1])].label = "list_item"

\* the nesting depth of a node: 1 for the children of the body
RECURSIVE Depth(_, _)
Depth(doc, r) ==
    IF doc.nodes[r].parent = 0 THEN 1
    ELSE 1 + Depth(doc, doc.nodes[r].parent)

\* the level of the last section heading among the first i lines, 0 when
\* there is none
RecentHeading(doc, lines, i) ==
    LET hs == { j \in 1..i :
                  doc.nodes[lines[j].item].label = "section_header" }
        j  == CHOOSE x \in hs : \A y \in hs : y <= x
    IN  IF hs = {} THEN 0 ELSE doc.nodes[lines[j].item].level

\* C21 as stated: every line of the overview of a document is indented by
\* the nesting depth of its node plus the level of the last section heading
\* seen so far, for titles, headings, text items and groups alike.
C21_UniformIndent ==
    \A k \in Registered :
        LET lines == Overview(Doc(k))
        IN  \A i \in 1..Len(lines) :
              lines[i].indent = Depth(Doc(k), lines[i].item)
                                    + RecentHeading(Doc(k), lines, i)

\* C21 as amended: in the overview that get_overview returns, the line of
\* a title is not indented, the line of a section heading is indented by
\* its nesting depth plus its own level, and every other line by its
\* nesting depth plus the level of the last section heading before it
\* plus one.
C21_OverviewIndent ==
    (reply.op = "get_overview" /\ reply.ok)
    => LET d     == OldDoc(reply.key)
           lines == Overview(d)
       IN  /\ reply.ret = JoinLines(lines)
           /\ \A i \in 1..Len(lines) :
                LET node == d.nodes[lines[i].item]
                IN  lines[i].indent =
                      IF node.label = "title" THEN 0
                      ELSE IF node.label = "section_header"
                      THEN Depth(d, lines[i].item) + node.level
                      ELSE Depth(d, lines[i].item)
                               + RecentHeading(d, lines, i - 1) + 1

\* the overview of a title, a heading of level 2 and a paragraph was
\* returned
C21_Witness ==
    /\ reply.op = "get_overview"
    /\ reply.ok
    /\ LET d     == Doc(reply.key)
           lines == Overview(d)
       IN  /\ Len(lines) = 3
           /\ d.nodes[lines[1].item].label = "title"
           /\ d.nodes[lines[2].item].label = "section_header"
           /\ d.nodes[lines[2].item].level = 2
           /\ d.nodes[lines[3].item].label = "text"
           /\ lines[3].indent = 4

\* the nodes of the body of a document: the nodes of the tree that are in
\* the body content layer
BodyNodes(doc) == { r \in InTree(doc) : doc.nodes[r].content_layer = BODY }

\* C22 as stated: the overview that get_overview returns has exactly one
\* line per node of the document body, with the anchor of the node; the
\* overview of a heading and a list group with one item has three lines:
\* the heading, the list group and the list item.
C22_OverviewListsEveryNode ==
    (reply.op = "get_overview" /\ reply.ok)
    => LET d     == OldDoc(reply.key)
           lines == Overview(d)
       IN  /\ Len(lines) = Cardinality(BodyNodes(d))
           /\ { lines[i].item : i \in 1..Len(lines) } = BodyNodes(d)
           /\ \A i \in 1..Len(lines) :
                lines[i].anchor = cref(d, lines[i].item)
           /\ (/\ Len(d.nodes) = 4
               /\ d.nodes[2].label = "section_header"
               /\ d.nodes[3].label = "list"
               /\ d.nodes[4].label = "list_item"
               /\ BodyNodes(d) = {2, 3, 4})
              => /\ Len(lines) = 3
                 /\ lines[1].item = 2
                 /\ lines[2].item = 3
                 /\ lines[3].item = 4

C25_NoEviction ==
    /\ Fresh => reply.key \in Registered
    /\ \A k \in WasRegistered :
          /\ k \in Registered
          /\ k \in DOMAIN local_stack_cache
          /\ is_document_in_local_cache(Now, k).reply.status

\* a document was created while the registry held a converted document
\* with a list, and both are in the registry
C25_Witness ==
    /\ reply.op = "create"
    /\ reply.ok
    /\ \E k \in WasRegistered :
          /\ k # reply.key
          /\ k \in Registered
          /\ Len(Doc(k).groups) >= 1

\* the calls whose order C26 exchanges: one call of each handler that
\* writes, on key k
CallsOn(k) ==
    { [ op |-> "store" ], [ op |-> "add_paragraph" ],
      [ op |-> "add_section_heading" ], [ op |-> "open_list" ],
      [ op |-> "close_list" ], [ op |-> "add_list_items" ],
      [ op |-> "add_table" ], [ op |-> "update_text" ], [ op |-> "delete" ],
      [ op |-> "export" ] }

\* what the handler of call c on key k leaves; "store" is the create or the
\* convert that stores a document under k
Apply(S, c, k) ==
    CASE c.op = "store" ->
             IF k = hash_string_md5("p1")
             THEN create_new_docling_document(S, "p1")
             ELSE convert_pdf_document_into_json_docling_document_from_uri_path(
                      S, "s1", "one_paragraph")
      [] c.op = "add_paragraph" ->
             add_paragraph_to_docling_document(S, k, "a")
      [] c.op = "add_section_heading" ->
             add_section_heading_to_docling_document(S, k, "a", 1)
      [] c.op = "open_list" -> open_list_in_docling_document(S, k)
      [] c.op = "close_list" -> close_list_in_docling_document(S, k)
      [] c.op = "add_list_items" ->
             add_list_items_to_list_in_docling_document(S, k,
                 << [list_item_text |-> "x", list_marker_text |-> "-"] >>)
      [] c.op = "add_table" ->
             add_table_in_html_format_to_docling_document(S, k, "one",
                 << >>, <<"f1">>)
      [] c.op = "update_text" ->
             update_text_of_document_item_at_anchor(S, k, "#/texts/1", "b")
      [] c.op = "delete" ->
             delete_document_items_at_anchors(S, k, <<"#/texts/1">>)
      [] c.op = "export" -> export_docling_document_to_markdown(S, k)

\* the state a call leaves, for the next call
After(R) == [ cache |-> R.cache, stacks |-> R.stacks ]

\* what the caller of a call sees of its outcome, the list of keys of a
\* not-found message aside
Seen(R) == [ ok |-> R.reply.ok, status |-> R.reply.status,
             err |-> R.reply.err, ret |-> R.reply.ret ]

\* C26: a call on a key leaves the document and the stack of every other
\* key as they were; the stack and the tree of a document hold objects of
\* that document only; and two calls on different keys leave the same
\* documents and stacks and see the same outcomes in either order.
C26_DocumentsIsolated ==
    /\ \A k \in WasRegistered :
          k # reply.key
          => /\ k \in Registered
             /\ Doc(k) = OldDoc(k)
             /\ Stack(k) = OldStack(k)
    /\ \A k \in Registered :
          /\ Range(Stack(k)) \subseteq 1..Len(Doc(k).nodes)
          /\ InTree(Doc(k)) \subseteq 1..Len(Doc(k).nodes)
    /\ reply = Idle
       => \A k1 \in { hash_string_md5(p) : p \in Prompts },
             k2 \in { get_cache_key(strip(src)) : src \in Sources } :
            k1 # k2
            => \A c1 \in CallsOn(k1), c2 \in CallsOn(k2) :
                 LET a1 == Apply(Now, c1, k1)
                     a2 == Apply(After(a1), c2, k2)
                     b2 == Apply(Now, c2, k2)
                     b1 == Apply(After(b2), c1, k1)
                 IN  /\ After(a2) = After(b1)
                     /\ Seen(a1) = Seen(b1)
                     /\ Seen(a2) = Seen(b2)

\* a list was opened in a document while the other document has an open
\* list with an item, which the call left as it was
C26_Witness ==
    /\ reply.op = "open_list"
    /\ reply.ok
    /\ \E k \in WasRegistered :
          /\ k # reply.key
          /\ Len(OldStack(k)) = 2
          /\ Stack(k) = OldStack(k)
          /\ Doc(k) = OldDoc(k)

\* the shape every stack has when handlers run one at a time: the bottom
\* entry is no list group and every entry above it is one
Shape(k) ==
    /\ Len(Stack(k)) >= 1
    /\ ~IsOpenList(Doc(k), Stack(k)[1])
    /\ \A i \in 2..Len(Stack(k)) : IsOpenList(Doc(k), Stack(k)[i])

\* the handler of a call, run as a whole
Whole(S, op, k, text) ==
    CASE op = "add_title" -> add_title_to_docling_document(S, k, text)
      [] op = "add_section_heading" ->
             add_section_heading_to_docling_document(S, k, text, 1)
      [] op = "add_paragraph" ->
             add_paragraph_to_docling_document(S, k, text)
      [] op = "open_list" -> open_list_in_docling_document(S, k)
      [] op = "close_list" -> close_list_in_docling_document(S, k)

\* C27: with handlers that overlap on threads, a stack leaves the shape
\* of the one-at-a-time runs, and it does so only through a handler that
\* wrote the stack after another had changed it since the first's check
\* (the checks are those of the handlers run as a whole).
C27_BrokenOnlyByRace ==
    /\ \A k \in Registered : ~Shape(k) => k \in raced
    /\ \A op \in StackOps, k \in Keys, text \in Texts :
          (Checked(Now, op, k) = "none") = Whole(Now, op, k, text).reply.ok

\* the list group that open_list pushed was overwritten by a paragraph:
\* depth 2, the sentinel below, a paragraph on top, the group in the body
\* but not on the stack
C27_Witness ==
    \E k \in Registered :
        /\ k \in raced
        /\ Len(Stack(k)) = 2
        /\ Doc(k).nodes[Stack(k)[1]].content_layer = FURNITURE
        /\ Doc(k).nodes[Stack(k)[2]].label = "text"
        /\ Doc(k).nodes[Stack(k)[2]].content_layer = BODY
        /\ \E g \in Range(Doc(k).body) :
              /\ IsOpenList(Doc(k), g)
              /\ g \notin Range(Stack(k))
        /\ \A t \in Threads : calls[t].pc = "idle"

\* a str or a list of strs
StrOrStrs(value) ==
    \/ value.kind = "str"
    \/ /\ value.kind = "list"
       /\ { value.items[i].kind : i \in 1..Len(value.items) } \subseteq {"str"}

\* out has the keys of the schema, at every level; an entry the schema
\* gives a default for is the data's value if that is a str or a list of
\* strs and the default otherwise; an entry the schema gives a dict for is
\* made from the data's dict, or from no data if the data has none there
RECURSIVE Sanitized(_, _, _)
Sanitized(out, data, schema) ==
    /\ IsDict(out)
    /\ DOMAIN out.fields = DOMAIN schema.fields
    /\ \A key \in DOMAIN schema.fields :
          LET given == key \in DOMAIN data.fields
          IN  IF IsDict(schema.fields[key])
              THEN Sanitized(out.fields[key],
                             IF given /\ IsDict(data.fields[key])
                             THEN data.fields[key] ELSE Dict(<< >>),
                             schema.fields[key])
              ELSE out.fields[key] =
                      IF given /\ StrOrStrs(data.fields[key])
                      THEN data.fields[key] ELSE schema.fields[key]

\* C28: validate_data_against_schema(data, schema) returns a dict with the
\* key set of the schema at every nesting level, whose entries that are no
\* dicts are the data's value when that is a string or a list of strings
\* and the schema's default otherwise.
C28_ValidatedFitsSchema ==
    validation.done
    => Sanitized(validation.validated, validation.data, validation.schema)

\* one result with a key of the data removed, a number where the schema
\* expects a dict, and, a level down, a key added and a list of strings kept
C28_Witness ==
    /\ validation.done
    /\ validation.schema =
          Dict(("a" :> Dict(("a" :> Str("")) @@ ("b" :> List(<< >>)))))
    /\ DOMAIN validation.data.fields = {"a", "b"}
    /\ validation.data.fields["a"] = Dict(("b" :> List(<<Str("x")>>)))
    /\ validation.validated =
          Dict(("a" :> Dict(("a" :> Str(""))
                            @@ ("b" :> List(<<Str("x")>>)))))

\* a number where the schema expects a dict is replaced by the dict of the
\* schema's defaults, and a list with a number in it by the default
C28_Replaced ==
    /\ validation.done
    /\ validation.schema =
          Dict(("a" :> Dict(("a" :> Str(""))) @@ ("b" :> List(<< >>))))
    /\ validation.data = Dict(("a" :> Num) @@ ("b" :> List(<<Str("x"), Num>>)))
    /\ validation.validated = validation.schema

\* C29: with one call at a time, the bottom entry of every build stack is
\* no list group and every entry above it is a list group; so add_title,
\* add_section_heading and add_paragraph on a known document succeed
\* exactly at stack depth 1, and add_list_items exactly at a depth above 1.
C29_StackShape ==
    /\ \A k \in Registered : Shape(k)
    /\ \A k \in WasRegistered :
          reply.key = k
          => /\ reply.op \in LeafOps
                => (reply.ok <=> Len(OldStack(k)) = 1)
             /\ reply.op = "add_list_items"
                => (reply.ok <=> Len(OldStack(k)) > 1)

\* a title was refused at depth 3, under two open lists
C29_Witness ==
    /\ reply.op = "add_title"
    /\ ~reply.ok
    /\ reply.key \in WasRegistered
    /\ Len(OldStack(reply.key)) = 3
    /\ Shape(reply.key)

\* list items were added at depth 3
C29_ItemsAtDepth ==
    /\ reply.op = "add_list_items"
    /\ reply.ok
    /\ Len(OldStack(reply.key)) = 3

\* C30 as stated: in every state, deletes included, every object on the
\* build stack of a document is a node of that document's tree.
C30_StackInTree ==
    \A k \in Registered : Range(Stack(k)) \subseteq InTree(Doc(k))

\* C31: the registry and the stack cache have the same keys in every
\* state; a create or a convert that stores a document under a new key adds
\* the key to both, and a call that raises leaves the keys of both as they
\* were.
C31_SameKeys ==
    /\ DOMAIN local_document_cache = DOMAIN local_stack_cache
    /\ DOMAIN before.cache = DOMAIN before.stacks
    /\ Fresh => /\ reply.key \in DOMAIN local_document_cache
                /\ reply.key \in DOMAIN local_stack_cache
    /\ ~reply.ok => /\ DOMAIN local_document_cache = DOMAIN before.cache
                    /\ DOMAIN local_stack_cache = DOMAIN before.stacks

\* a convert stored a second document: both caches went from one key to two
C31_Witness ==
    /\ reply.op = "convert"
    /\ Fresh
    /\ reply.key \notin DOMAIN before.cache
    /\ reply.key \notin DOMAIN before.stacks
    /\ Cardinality(DOMAIN before.stacks) = 1
    /\ Cardinality(DOMAIN local_stack_cache) = 2

\* a call that raised on a registry of two documents left both caches with
\* their two keys
C31_FailedKeepsKeys ==
    /\ ~reply.ok
    /\ reply.op = "add_list_items"
    /\ Cardinality(DOMAIN local_document_cache) = 2
    /\ DOMAIN local_stack_cache = DOMAIN before.stacks

\* C32: a successful add_list_items attaches its items, and nothing else,
\* to the list opened last among those not closed yet; and after open_list
\* (list A), open_list (list B) and close_list, add_list_items gives its
\* item to A and nothing to B.
C32_ItemsGoToLatestOpenList ==
    /\ (reply.op = "add_list_items" /\ reply.ok)
       => LET k == reply.key
              d == OldDoc(k)
              e == Doc(k)
              a == SetMax(unclosed[k])
              added == (Len(d.nodes) + 1)..Len(e.nodes)
          IN  /\ unclosed[k] # {}
              /\ \A r \in added : e.nodes[r].parent = a
              /\ Range(e.nodes[a].children)
                   = Range(d.nodes[a].children) \cup added
              /\ \A r \in 1..Len(d.nodes) :
                    r # a => e.nodes[r].children = d.nodes[r].children
              /\ e.body = d.body
    /\ reply = Idle
       => \A k \in Registered :
            LET item == [list_item_text |-> "x", list_marker_text |-> "-"]
                A  == NewRef(Doc(k))
                B  == A + 1
                o1 == open_list_in_docling_document(Now, k)
                o2 == open_list_in_docling_document(After(o1), k)
                c  == close_list_in_docling_document(After(o2), k)
                i  == add_list_items_to_list_in_docling_document(
                          After(c), k, <<item>>)
            IN  /\ o1.reply.ok /\ o2.reply.ok /\ c.reply.ok /\ i.reply.ok
                /\ i.cache[k].nodes[A].label = "list"
                /\ i.cache[k].nodes[B].label = "list"
                /\ B + 1 \in Range(i.cache[k].nodes[A].children)
                /\ Len(i.cache[k].nodes) = B + 1
                /\ i.cache[k].nodes[B + 1].text = "x"
                /\ i.cache[k].nodes[B + 1].parent = A
                /\ i.cache[k].nodes[B].children = << >>

\* items were added after two open_list calls and one close_list: they are
\* in the list opened first, and the list opened second has none
C32_Witness ==
    /\ reply.op = "add_list_items"
    /\ reply.ok
    /\ Len(reply.args[1]) = 1
    /\ opened[reply.key] = 2
    /\ closed[reply.key] = 1
    /\ LET e == Doc(reply.key)
       IN  /\ Len(e.groups) = 2
           /\ unclosed[reply.key] = {e.groups[1]}
           /\ Len(e.nodes[e.groups[1]].children) = 1
           /\ e.nodes[e.groups[2]].children = << >>

\* n close_list calls on document k, one after the other, from S: the
\* state they leave and whether all of them returned
RECURSIVE CloseLists(_, _, _)
CloseLists(S, k, n) ==
    IF n = 0 THEN [ state |-> S, ok |-> TRUE ]
    ELSE LET c == close_list_in_docling_document(S, k)
             rest == CloseLists(After(c), k, n - 1)
         IN  [ state |-> rest.state, ok |-> c.reply.ok /\ rest.ok ]

\* C33: no state blocks further editing: from a state where the stack of
\* a document has depth d, d - 1 close_list calls in a row all return and
\* leave the stack at depth 1 with its bottom entry, the leaf that was on
\* top before the first list was opened, and leave the tree as it was;
\* after them add_title, add_section_heading and add_paragraph return.
C33_ListsCanBeClosed ==
    /\ \A k \in WasRegistered :
          (~Fresh /\ (Len(OldStack(k)) > 1 \/ Len(Stack(k)) > 1))
          => Stack(k)[1] = OldStack(k)[1]
    /\ reply = Idle
       => \A k \in Registered :
            LET d == Len(Stack(k))
                closed_all == CloseLists(Now, k, d - 1)
                S == closed_all.state
            IN  /\ d >= 1
                /\ closed_all.ok
                /\ S.stacks[k] = << Stack(k)[1] >>
                /\ ~IsOpenList(Doc(k), Stack(k)[1])
                /\ S.cache = local_document_cache
                /\ add_title_to_docling_document(S, k, "a").reply.ok
                /\ add_section_heading_to_docling_document(S, k, "a", 1).reply.ok
                /\ add_paragraph_to_docling_document(S, k, "a").reply.ok

\* two lists are open above a heading: two close_list calls are needed
C33_Witness ==
    /\ reply = Idle
    /\ \E k \in Registered :
          /\ Len(Stack(k)) = 3
          /\ Doc(k).nodes[Stack(k)[1]].label = "section_header"
          /\ CloseLists(Now, k, 2).ok
          /\ ~add_paragraph_to_docling_document(Now, k, "a").reply.ok

====
